---- MODULE Spec2Model ----
(***************************************************************************)
(* Verification model of kafka-pixy.                                       *)
(*                                                                         *)
(*  - config package (src/config/config.go): FromYAML, App.validate,       *)
(*    Proxy.validate, defaultProxyWithClientID, newClientID, KazooCfg.     *)
(*  - OffsetManager and PartitionAssigner, as spec.md sections 4.3 and     *)
(*    4.2 describe them.                                                   *)
(*                                                                         *)
(* Durations are counted in milliseconds.                                  *)
(***************************************************************************)
EXTENDS Integers, Sequences, FiniteSets, TLC

VARIABLES
    data,       \* FromYAML: the configuration file handed to FromYAML
    pc,         \* FromYAML: "start" before the call, "done" after it returned
    appCfg,     \* FromYAML: the *App it returned (NilApp when nil)
    err,        \* FromYAML: the error it returned ("nil" when nil)
    idCalls,    \* number of newClientID invocations made by the FromYAML call
    clientID,   \* the value newClientID returned to FromYAML ("" before)
    kazooCfg,   \* result of the last Proxy.KazooCfg call (NoKazoo before)
    omNow,        \* OffsetManager: current time, in scheduling ticks
    omOwned,      \* OffsetManager: the partition is owned by this instance
    omKafka,      \* offset durably committed in Kafka (-1: none)
    omEntry,      \* OffsetManager: the OffsetEntry of the partition
    omEverAcked,  \* offsets acknowledged at least once, by any owner
    paLive,       \* PartitionAssigner: live members of the group
    paPartitions, \* PartitionAssigner: partitions of the topic
    paShare,      \* PartitionAssigner: share each member computed for itself
    paComputed    \* members that computed their share since the last change

cfgVars == <<data, pc, appCfg, err, idCalls, clientID, kazooCfg>>
omVars == <<omNow, omOwned, omKafka, omEntry, omEverAcked>>
paVars == <<paLive, paPartitions, paShare, paComputed>>
vars == <<cfgVars, omVars, paVars>>

----------------------------------------------------------------------------
(* Bounds of the model.                                                    *)

\* Longest proxies section (number of entries) of an input file.
MaxProxies == 2

\* OffsetManager: highest offset of the partition, last tick of the clock, and
\* the ack timeout in ticks.
OmMaxOffset == 2
OmMaxTime == 3
OmAckTimeout == 2

\* PartitionAssigner: most partitions of the topic.
PaMaxPartitions == 4

----------------------------------------------------------------------------
(* time.Duration units, in milliseconds.                                   *)

Millisecond == 1
Second == 1000

----------------------------------------------------------------------------
(* Input files.                                                            *)

\* Keys of the proxies section as yaml.MapSlice items carry them: a string
\* alias, or a key of another YAML type (an integer, null, ...).
StringAliases == {"", "a", "b"}
StrKey(s) == [isString |-> TRUE, val |-> s]
NonStringKey == [isString |-> FALSE, val |-> "1"]

\* Values that a proxy entry gives to the leaves of the Proxy structure, by
\* YAML path (the seed peer lists are left to their defaults).
LeafValues(path) ==
    CASE path = "client_id" -> {"custom_id"}
      [] path = "zoo_keeper.chroot" -> {"/kafka"}
      [] path = "producer.channel_buffer_size" -> {0}
      [] path = "producer.shutdown_timeout" -> {0 - 1 * Second}
      [] path = "consumer.channel_buffer_size" -> {0}
      [] path = "consumer.long_polling_timeout" -> {0}
      [] path = "consumer.registration_timeout" -> {0, 15 * Second}
      [] path = "consumer.ack_timeout" -> {5 * Second, 20 * Second}
      [] path = "consumer.backoff_timeout" -> {0}
      [] path = "consumer.rebalance_delay" -> {0}
      [] path = "consumer.offsets_commit_interval" -> {0}

Paths ==
    {"client_id", "zoo_keeper.chroot",
     "producer.channel_buffer_size", "producer.shutdown_timeout",
     "consumer.channel_buffer_size", "consumer.long_polling_timeout",
     "consumer.registration_timeout", "consumer.ack_timeout",
     "consumer.backoff_timeout", "consumer.rebalance_delay",
     "consumer.offsets_commit_interval"}

\* A mapping with the single key path.
OneKey(path, v) == [k \in {path} |-> v]

\* A mapping that sets both consumer timeouts.
Timeouts(ack, reg) ==
    [k \in {"consumer.ack_timeout", "consumer.registration_timeout"} |->
        IF k = "consumer.ack_timeout" THEN ack ELSE reg]

EmptyMapping == [k \in {} |-> 0]

\* The YAML mappings a proxy entry can hold: no key, one key, or both
\* consumer timeouts.
Mappings ==
    {EmptyMapping}
    \cup UNION {{OneKey(p, v) : v \in LeafValues(p)} : p \in Paths}
    \cup {Timeouts(25 * Second, 30 * Second), Timeouts(30 * Second, 30 * Second)}

\* Values of the items of the proxies section: a YAML mapping, or a node that
\* does not decode into a Proxy (e.g. a plain scalar).
MappingValue(m) == [kind |-> "mapping", fields |-> m]
ScalarValue == [kind |-> "scalar", fields |-> EmptyMapping]
Values == {MappingValue(m) : m \in Mappings} \cup {ScalarValue}

Items ==
    {[Key |-> StrKey(s), Value |-> v] : s \in StringAliases, v \in Values}
    \cup {[Key |-> NonStringKey, Value |-> MappingValue(EmptyMapping)]}

\* default_proxy of the file: not provided, or an alias.
NotProvided == [provided |-> FALSE, alias |-> ""]
Provided(s) == [provided |-> TRUE, alias |-> s]

\* The files handed to FromYAML: text that is not YAML, or a document with
\* a proxies section and an optional default_proxy that names one of its
\* proxies.
Unparseable == [wellFormed |-> FALSE, default_proxy |-> NotProvided, proxies |-> <<>>]
NamedAliases(ps) ==
    {ps[i].Key.val : i \in {j \in 1..Len(ps) : ps[j].Key.isString}} \ {""}
FilesWith(ps) ==
    {[wellFormed |-> TRUE, default_proxy |-> d, proxies |-> ps] :
        d \in {NotProvided} \cup {Provided(s) : s \in NamedAliases(ps)}}
IsFile(f) ==
    \/ f = Unparseable
    \/ \E k \in 0..MaxProxies : \E ps \in [1..k -> Items] : f \in FilesWith(ps)

----------------------------------------------------------------------------
(* The config package.                                                     *)

NilApp == [isNil |-> TRUE]
NoKazoo == [Chroot |-> "", Timeout |-> 0]

\* The identifier newClientID returns: host name, time of the call and pid.
GeneratedIDs == {"pixy_host_2026-11-01T00.00.00Z_7"}

\* type proxyProb: the only part of the file FromYAML decodes.
proxyProb(file) == [Proxies |-> file.proxies]

\* yaml.Unmarshal(data, &prob)
UnmarshalProb(file) ==
    IF file.wellFormed
    THEN [err |-> "nil", prob |-> proxyProb(file)]
    ELSE [err |-> "failed to parse config", prob |-> [Proxies |-> <<>>]]

newApp ==
    [isNil |-> FALSE,
     GRPCAddr |-> "0.0.0.0:19091",
     TCPAddr |-> "0.0.0.0:19092",
     UnixAddr |-> "",
     Proxies |-> [a \in {} |-> 0],
     DefaultProxy |-> ""]

\* defaultProxyWithClientID without the assignment of the identifier.
defaultProxyWithClientID_noID(id) ==
    [ClientID |-> "",
     ZooKeeper |-> [SeedPeers |-> <<"localhost:2181">>, Chroot |-> ""],
     Kafka |-> [SeedPeers |-> <<"localhost:9092">>],
     Producer |-> [ChannelBufferSize |-> 4096,
                   ShutdownTimeout |-> 30 * Second],
     Consumer |-> [ChannelBufferSize |-> 64,
                   LongPollingTimeout |-> 3 * Second,
                   RegistrationTimeout |-> 20 * Second,
                   AckTimeout |-> 15 * Second,
                   BackOffTimeout |-> 500 * Millisecond,
                   RebalanceDelay |-> 250 * Millisecond,
                   OffsetsCommitInterval |-> 500 * Millisecond]]

\* func defaultProxyWithClientID(clientID string) *Proxy
defaultProxyWithClientID(id) ==
    [ClientID |-> id,
     ZooKeeper |-> [SeedPeers |-> <<"localhost:2181">>, Chroot |-> ""],
     Kafka |-> [SeedPeers |-> <<"localhost:9092">>],
     Producer |-> [ChannelBufferSize |-> 4096,
                   ShutdownTimeout |-> 30 * Second],
     Consumer |-> [ChannelBufferSize |-> 64,
                   LongPollingTimeout |-> 3 * Second,
                   RegistrationTimeout |-> 20 * Second,
                   AckTimeout |-> 15 * Second,
                   BackOffTimeout |-> 500 * Millisecond,
                   RebalanceDelay |-> 250 * Millisecond,
                   OffsetsCommitInterval |-> 500 * Millisecond]]

\* yaml.Marshal(proxyItem.Value): the document of one proxy entry.  A mapping
\* is written as its key/value lines, a scalar as a single scalar node.
PathOrder ==
    <<"client_id", "consumer.ack_timeout", "consumer.backoff_timeout",
      "consumer.channel_buffer_size", "consumer.long_polling_timeout",
      "consumer.offsets_commit_interval", "consumer.rebalance_delay",
      "consumer.registration_timeout", "kafka.seed_peers",
      "producer.channel_buffer_size", "producer.shutdown_timeout",
      "zoo_keeper.chroot", "zoo_keeper.seed_peers">>

RECURSIVE MarshalLines(_, _)
MarshalLines(fields, i) ==
    IF i > Len(PathOrder) THEN <<>>
    ELSE IF PathOrder[i] \in DOMAIN fields
         THEN <<[path |-> PathOrder[i], val |-> fields[PathOrder[i]]]>>
              \o MarshalLines(fields, i + 1)
         ELSE MarshalLines(fields, i + 1)

yamlMarshal(value) ==
    [root |-> value.kind,
     lines |-> IF value.kind = "mapping"
               THEN MarshalLines(value.fields, 1) ELSE <<>>]

\* The field of Proxy that carries the yaml tag path, set to v.
SetField(p, path, v) ==
    CASE path = "client_id" -> [p EXCEPT !.ClientID = v]
      [] path = "kafka.seed_peers" -> [p EXCEPT !.Kafka.SeedPeers = v]
      [] path = "zoo_keeper.seed_peers" ->
            [p EXCEPT !.ZooKeeper.SeedPeers = v]
      [] path = "zoo_keeper.chroot" -> [p EXCEPT !.ZooKeeper.Chroot = v]
      [] path = "producer.channel_buffer_size" ->
            [p EXCEPT !.Producer.ChannelBufferSize = v]
      [] path = "producer.shutdown_timeout" ->
            [p EXCEPT !.Producer.ShutdownTimeout = v]
      [] path = "consumer.channel_buffer_size" ->
            [p EXCEPT !.Consumer.ChannelBufferSize = v]
      [] path = "consumer.long_polling_timeout" ->
            [p EXCEPT !.Consumer.LongPollingTimeout = v]
      [] path = "consumer.registration_timeout" ->
            [p EXCEPT !.Consumer.RegistrationTimeout = v]
      [] path = "consumer.ack_timeout" ->
            [p EXCEPT !.Consumer.AckTimeout = v]
      [] path = "consumer.backoff_timeout" ->
            [p EXCEPT !.Consumer.BackOffTimeout = v]
      [] path = "consumer.rebalance_delay" ->
            [p EXCEPT !.Consumer.RebalanceDelay = v]
      [] path = "consumer.offsets_commit_interval" ->
            [p EXCEPT !.Consumer.OffsetsCommitInterval = v]

RECURSIVE DecodeLines(_, _, _)
DecodeLines(lines, i, p) ==
    IF i > Len(lines) THEN p
    ELSE DecodeLines(lines, i + 1, SetField(p, lines[i].path, lines[i].val))

\* The zero value of Proxy.
ZeroProxy ==
    [ClientID |-> "",
     ZooKeeper |-> [SeedPeers |-> <<>>, Chroot |-> ""],
     Kafka |-> [SeedPeers |-> <<>>],
     Producer |-> [ChannelBufferSize |-> 0, ShutdownTimeout |-> 0],
     Consumer |-> [ChannelBufferSize |-> 0,
                   LongPollingTimeout |-> 0,
                   RegistrationTimeout |-> 0,
                   AckTimeout |-> 0,
                   BackOffTimeout |-> 0,
                   RebalanceDelay |-> 0,
                   OffsetsCommitInterval |-> 0]]

\* A decoder that fills a fresh Proxy instead of the one it is handed, as
\* decoding the whole App at once does.
yamlUnmarshalProxy_overZero(doc, proxyCfg) ==
    IF doc.root = "mapping"
    THEN [err |-> "nil", proxy |-> DecodeLines(doc.lines, 1, ZeroProxy)]
    ELSE [err |-> "cannot unmarshal into config.Proxy", proxy |-> proxyCfg]

\* yaml.Unmarshal(encodedProxyCfg, proxyCfg): decodes the document over the
\* structure proxyCfg points to; only the keys of the document are assigned.
yamlUnmarshalProxy(doc, proxyCfg) ==
    IF doc.root = "mapping"
    THEN [err |-> "nil", proxy |-> DecodeLines(doc.lines, 1, proxyCfg)]
    ELSE [err |-> "cannot unmarshal into config.Proxy", proxy |-> proxyCfg]

\* Proxy.validate with the timeouts compared by > instead of >=.
Proxy_validate_ackEqual(p) ==
    IF p.Producer.ChannelBufferSize <= 0
        THEN "Producer.ChannelBufferSize must be > 0"
    ELSE IF p.Producer.ShutdownTimeout < 0
        THEN "Producer.ShutdownTimeout must be >= 0"
    ELSE IF p.Consumer.ChannelBufferSize <= 0
        THEN "Consumer.ChannelBufferSize must be > 0"
    ELSE IF p.Consumer.LongPollingTimeout <= 0
        THEN "Consumer.LongPollingTimeout must be > 0"
    ELSE IF p.Consumer.RegistrationTimeout <= 0
        THEN "Consumer.RegistrationTimeout must be > 0"
    ELSE IF p.Consumer.AckTimeout > p.Consumer.RegistrationTimeout
        THEN "Consumer.AckTimeout must be < Consumer.RegistrationTimeout"
    ELSE IF p.Consumer.BackOffTimeout <= 0
        THEN "Consumer.BackOffTimeout must be > 0"
    ELSE IF p.Consumer.RebalanceDelay <= 0
        THEN "Consumer.RebalanceDelay must be > 0"
    ELSE IF p.Consumer.OffsetsCommitInterval <= 0
        THEN "Consumer.OffsetsCommitInterval must be > 0"
    ELSE "nil"

\* Proxy.validate with the buffer sizes compared by < instead of <=.
Proxy_validate_zeroBuffer(p) ==
    IF p.Producer.ChannelBufferSize < 0
        THEN "Producer.ChannelBufferSize must be > 0"
    ELSE IF p.Producer.ShutdownTimeout < 0
        THEN "Producer.ShutdownTimeout must be >= 0"
    ELSE IF p.Consumer.ChannelBufferSize < 0
        THEN "Consumer.ChannelBufferSize must be > 0"
    ELSE IF p.Consumer.LongPollingTimeout <= 0
        THEN "Consumer.LongPollingTimeout must be > 0"
    ELSE IF p.Consumer.RegistrationTimeout <= 0
        THEN "Consumer.RegistrationTimeout must be > 0"
    ELSE IF p.Consumer.AckTimeout >= p.Consumer.RegistrationTimeout
        THEN "Consumer.AckTimeout must be < Consumer.RegistrationTimeout"
    ELSE IF p.Consumer.BackOffTimeout <= 0
        THEN "Consumer.BackOffTimeout must be > 0"
    ELSE IF p.Consumer.RebalanceDelay <= 0
        THEN "Consumer.RebalanceDelay must be > 0"
    ELSE IF p.Consumer.OffsetsCommitInterval <= 0
        THEN "Consumer.OffsetsCommitInterval must be > 0"
    ELSE "nil"

\* func (p *Proxy) validate() error
Proxy_validate(p) ==
    IF p.Producer.ChannelBufferSize <= 0
        THEN "Producer.ChannelBufferSize must be > 0"
    ELSE IF p.Producer.ShutdownTimeout < 0
        THEN "Producer.ShutdownTimeout must be >= 0"
    ELSE IF p.Consumer.ChannelBufferSize <= 0
        THEN "Consumer.ChannelBufferSize must be > 0"
    ELSE IF p.Consumer.LongPollingTimeout <= 0
        THEN "Consumer.LongPollingTimeout must be > 0"
    ELSE IF p.Consumer.RegistrationTimeout <= 0
        THEN "Consumer.RegistrationTimeout must be > 0"
    ELSE IF p.Consumer.AckTimeout >= p.Consumer.RegistrationTimeout
        THEN "Consumer.AckTimeout must be < Consumer.RegistrationTimeout"
    ELSE IF p.Consumer.BackOffTimeout <= 0
        THEN "Consumer.BackOffTimeout must be > 0"
    ELSE IF p.Consumer.RebalanceDelay <= 0
        THEN "Consumer.RebalanceDelay must be > 0"
    ELSE IF p.Consumer.OffsetsCommitInterval <= 0
        THEN "Consumer.OffsetsCommitInterval must be > 0"
    ELSE "nil"

\* App.validate that looks at the default proxy only.
App_validate_defaultOnly(a) ==
    IF DOMAIN a.Proxies = {}
    THEN {"at least on proxy must be configured"}
    ELSE {Proxy_validate(a.Proxies[a.DefaultProxy])}

\* func (a *App) validate() error: the errors it can return.  The proxies are
\* visited in the iteration order of a Go map, which is not fixed, so any
\* invalid proxy can be the one reported.
App_validate(a) ==
    IF DOMAIN a.Proxies = {}
    THEN {"at least on proxy must be configured"}
    ELSE LET bad == {al \in DOMAIN a.Proxies :
                        Proxy_validate(a.Proxies[al]) # "nil"}
         IN  IF bad = {} THEN {"nil"}
             ELSE {Proxy_validate(a.Proxies[al]) : al \in bad}

\* appCfg.Proxies[proxyAlias] = proxyCfg
PutProxy(proxies, alias, p) ==
    [al \in DOMAIN proxies \cup {alias} |->
        IF al = alias THEN p ELSE proxies[al]]

\* One iteration of the loop of FromYAML over prob.Proxies; the result is the
\* returned error, or the updated appCfg.
LoopBody(proxyItem, app, id) ==
    IF ~proxyItem.Key.isString
    THEN [err |-> "invalid cluster alias", app |-> app]
    ELSE LET proxyAlias == proxyItem.Key.val
             encodedProxyCfg == yamlMarshal(proxyItem.Value)
             dec == yamlUnmarshalProxy(encodedProxyCfg,
                                       defaultProxyWithClientID(id))
         IN  IF dec.err # "nil"
             THEN [err |-> "failed to parse proxy config", app |-> app]
             ELSE [err |-> "nil",
                   app |-> [app EXCEPT
                       !.Proxies = PutProxy(@, proxyAlias, dec.proxy),
                       !.DefaultProxy =
                           IF @ = "" THEN proxyAlias ELSE @]]

\* for _, proxyItem := range prob.Proxies { ... }
RECURSIVE Loop(_, _, _, _)
Loop(items, i, app, id) ==
    IF i > Len(items) THEN [err |-> "nil", app |-> app]
    ELSE LET r == LoopBody(items[i], app, id)
         IN  IF r.err # "nil" THEN r ELSE Loop(items, i + 1, r.app, id)

\* The (*App, error) pairs FromYAML can return for a file, once newClientID
\* has returned id.
FromYAMLResults(file, id) ==
    LET r == Loop(UnmarshalProb(file).prob.Proxies, 1, newApp, id)
    IN  IF r.err # "nil"
        THEN {[app |-> NilApp, err |-> r.err]}
        ELSE {IF e = "nil"
              THEN [app |-> r.app, err |-> "nil"]
              ELSE [app |-> NilApp, err |-> e] : e \in App_validate(r.app)}

\* func FromYAML(data []byte) (*App, error)
FromYAML ==
    /\ pc = "start"
    /\ pc' = "done"
    /\ IF UnmarshalProb(data).err # "nil"
       THEN /\ appCfg' = NilApp
            /\ err' = UnmarshalProb(data).err
            /\ idCalls' = idCalls
            /\ clientID' = clientID
       ELSE \E id \in GeneratedIDs :
                \E res \in FromYAMLResults(data, id) :
                    /\ appCfg' = res.app
                    /\ err' = res.err
                    /\ idCalls' = idCalls + 1
                    /\ clientID' = id
    /\ UNCHANGED <<data, kazooCfg, omVars, paVars>>

\* func (p *Proxy) KazooCfg() *kazoo.Config, on a proxy of the loaded App.
KazooCfgOf(p) == [Chroot |-> p.ZooKeeper.Chroot, Timeout |-> 15 * Second]

KazooCfg ==
    /\ pc = "done"
    /\ ~appCfg.isNil
    /\ \E al \in DOMAIN appCfg.Proxies :
           kazooCfg' = KazooCfgOf(appCfg.Proxies[al])
    /\ UNCHANGED <<data, pc, appCfg, err, idCalls, clientID, omVars, paVars>>

----------------------------------------------------------------------------
(* OffsetManager (spec.md 4.3), for one partition of one group.            *)

Offsets == 0..OmMaxOffset

NoEntry == [committed_offset |-> -1, next |-> 0, inflight |-> <<>>,
            acked |-> {}, retry |-> {}]

\* OffsetEntry created when the partition is assigned: committed_offset is
\* seeded with the offset committed in Kafka, nothing is in flight.
NewEntry(committed) ==
    [committed_offset |-> committed,
     next |-> committed + 1,     \* GetOffsetToStart
     inflight |-> [o \in {} |-> 0], \* delivered, unacknowledged -> deadline
     acked |-> {},               \* acknowledged, not yet committed
     retry |-> {}]               \* timed out, eligible for re-handout

\* The highest acknowledged offset, whatever lies below it.
HighestAcked(committed, acked) ==
    IF acked = {} THEN committed
    ELSE CHOOSE o \in acked : \A q \in acked : q <= o

\* The highest acknowledged, contiguous offset: the end of the run of
\* acknowledged offsets that starts right after committed.
RECURSIVE HighestContiguousAcked(_, _)
HighestContiguousAcked(committed, acked) ==
    IF committed + 1 \in acked
    THEN HighestContiguousAcked(committed + 1, acked)
    ELSE committed

\* The offset handed out next: a timed-out one first, in offset order.
NextHandout(e) ==
    IF e.retry # {}
    THEN CHOOSE o \in e.retry : \A q \in e.retry : o <= q
    ELSE e.next

\* The partition is assigned to this instance.
Assigned ==
    /\ ~omOwned
    /\ omOwned' = TRUE
    /\ omEntry' = NewEntry(omKafka)
    /\ UNCHANGED <<omNow, omKafka, omEverAcked, cfgVars, paVars>>

\* Ownership is lost: the offset state is discarded, not committed.
Revoked ==
    /\ omOwned
    /\ omOwned' = FALSE
    /\ omEntry' = NoEntry
    /\ UNCHANGED <<omNow, omKafka, omEverAcked, cfgVars, paVars>>

\* RecordDelivery(group, topic, partition, offset)
RecordDelivery ==
    /\ omOwned
    /\ LET o == NextHandout(omEntry)
       IN  /\ o \in Offsets
           /\ omEntry' = [omEntry EXCEPT
                 !.inflight = [q \in DOMAIN @ \cup {o} |->
                                  IF q = o THEN omNow + OmAckTimeout ELSE @[q]],
                 !.retry = @ \ {o},
                 !.next = IF o = @ THEN @ + 1 ELSE @]
    /\ UNCHANGED <<omNow, omOwned, omKafka, omEverAcked, cfgVars, paVars>>

\* RecordAck(group, topic, partition, offset); the ack of an offset that is
\* not in flight is rejected without a state change.
RecordAck ==
    /\ \E o \in Offsets :
          IF omOwned /\ o \in DOMAIN omEntry.inflight
          THEN /\ omEntry' = [omEntry EXCEPT
                     !.inflight = [q \in DOMAIN @ \ {o} |-> @[q]],
                     !.acked = @ \cup {o}]
               /\ omEverAcked' = omEverAcked \cup {o}
          ELSE UNCHANGED <<omEntry, omEverAcked>>
    /\ UNCHANGED <<omNow, omOwned, omKafka, cfgVars, paVars>>

\* delivery_deadline elapsed without a matching RecordAck: the message is
\* considered undelivered and becomes eligible for re-handout.
AckTimeout ==
    /\ omOwned
    /\ \E o \in DOMAIN omEntry.inflight :
          /\ omNow >= omEntry.inflight[o]
          /\ omEntry' = [omEntry EXCEPT
                !.inflight = [q \in DOMAIN @ \ {o} |-> @[q]],
                !.retry = @ \cup {o}]
    /\ UNCHANGED <<omNow, omOwned, omKafka, omEverAcked, cfgVars, paVars>>

\* Tick committing the highest acknowledged offset, gaps or not.
CommitOffset_highestAcked(e) == HighestAcked(e.committed_offset, e.acked)

\* The offset Tick commits for an entry.
CommitOffset(e) == HighestContiguousAcked(e.committed_offset, e.acked)

\* Tick(): commits the highest acknowledged, contiguous offset; a failed
\* commit changes nothing and is retried on the next tick.
Tick ==
    /\ omOwned
    /\ \E committedOk \in BOOLEAN :
          IF committedOk
          THEN /\ omKafka' = CommitOffset(omEntry)
               /\ omEntry' = [omEntry EXCEPT
                     !.committed_offset = CommitOffset(omEntry),
                     !.acked = {o \in @ : o > CommitOffset(omEntry)}]
          ELSE UNCHANGED <<omKafka, omEntry>>
    /\ UNCHANGED <<omNow, omOwned, omEverAcked, cfgVars, paVars>>

\* Time passes.
ClockTick ==
    /\ omNow < OmMaxTime
    /\ omNow' = omNow + 1
    /\ UNCHANGED <<omOwned, omKafka, omEntry, omEverAcked, cfgVars, paVars>>

----------------------------------------------------------------------------
(* PartitionAssigner (spec.md 4.2).                                        *)

\* Member identities, as sequences of character codes.
Identities == {<<1>>, <<1, 2>>, <<2>>, <<2, 1>>}
Partitions == 0..(PaMaxPartitions - 1)

\* Lexicographic order of identities.
RECURSIVE LexLess(_, _)
LexLess(a, b) ==
    IF a = <<>> THEN b # <<>>
    ELSE IF b = <<>> THEN FALSE
    ELSE IF Head(a) # Head(b) THEN Head(a) < Head(b)
    ELSE LexLess(Tail(a), Tail(b))

\* The members sorted lexicographically.
RECURSIVE SortMembers(_)
SortMembers(S) ==
    IF S = {} THEN <<>>
    ELSE LET m == CHOOSE x \in S : \A y \in S \ {x} : LexLess(x, y)
         IN  <<m>> \o SortMembers(S \ {m})

\* The partitions sorted numerically.
RECURSIVE SortPartitions(_)
SortPartitions(S) ==
    IF S = {} THEN <<>>
    ELSE LET m == CHOOSE x \in S : \A y \in S : x <= y
         IN  <<m>> \o SortPartitions(S \ {m})

\* Position of self in the sorted member list (0 when it is no member).
PositionOf(members, self) ==
    IF \E i \in 1..Len(members) : members[i] = self
    THEN CHOOSE i \in 1..Len(members) : members[i] = self
    ELSE 0

\* Round-robin that counts the partitions from 1 and the members from 0.
Assign_offByOne(members, partitions, self) ==
    IF PositionOf(members, self) = 0 THEN {}
    ELSE {partitions[i] : i \in {j \in 1..Len(partitions) :
              j % Len(members) = PositionOf(members, self)}}

\* Assign(group, topic, members, partitions) -> partitions owned by self:
\* the partitions are dealt round-robin over the sorted members.
Assign(members, partitions, self) ==
    IF PositionOf(members, self) = 0 THEN {}
    ELSE {partitions[i] : i \in {j \in 1..Len(partitions) :
              (j - 1) % Len(members) = PositionOf(members, self) - 1}}

\* A member recomputes its share after a membership change.
Rebalance ==
    /\ \E m \in paLive \ paComputed :
          /\ paShare' = [paShare EXCEPT ![m] =
                Assign(SortMembers(paLive), SortPartitions(paPartitions), m)]
          /\ paComputed' = paComputed \cup {m}
    /\ UNCHANGED <<paLive, paPartitions, cfgVars, omVars>>

\* A member joins or leaves the group: every member has to recompute.
MembershipChange ==
    /\ \E m \in Identities :
          /\ paLive' = IF m \in paLive THEN paLive \ {m} ELSE paLive \cup {m}
          /\ paLive' # {}
          /\ paShare' = [paShare EXCEPT ![m] = {}]
    /\ paComputed' = {}
    /\ UNCHANGED <<paPartitions, cfgVars, omVars>>

----------------------------------------------------------------------------
(* Specifications.                                                         *)

CfgIdle ==
    /\ pc = "start"
    /\ appCfg = NilApp
    /\ err = "nil"
    /\ idCalls = 0
    /\ clientID = ""
    /\ kazooCfg = NoKazoo

OmIdle ==
    /\ omNow = 0
    /\ omOwned = FALSE
    /\ omKafka = -1
    /\ omEntry = NoEntry
    /\ omEverAcked = {}

PaIdle ==
    /\ paShare = [m \in Identities |-> {}]
    /\ paComputed = {}

\* The config package: FromYAML is called on a file, then the loaded
\* configuration is used.
Init ==
    /\ IsFile(data)
    /\ CfgIdle
    /\ OmIdle
    /\ paLive = {<<1>>} /\ paPartitions = {} /\ PaIdle

Next == FromYAML \/ KazooCfg

Spec == Init /\ [][Next]_vars

\* The OffsetManager on one partition.
InitOffsets ==
    /\ data = Unparseable
    /\ CfgIdle
    /\ OmIdle
    /\ paLive = {<<1>>} /\ paPartitions = {} /\ PaIdle

NextOffsets ==
    \/ Assigned
    \/ Revoked
    \/ RecordDelivery
    \/ RecordAck
    \/ AckTimeout
    \/ Tick
    \/ ClockTick

SpecOffsets == InitOffsets /\ [][NextOffsets]_vars

\* The PartitionAssigner over the members of one group and one topic.
InitAssign ==
    /\ data = Unparseable
    /\ CfgIdle
    /\ OmIdle
    /\ paLive \in (SUBSET Identities) \ {{}}
    /\ paPartitions \in SUBSET Partitions
    /\ PaIdle

NextAssign == Rebalance \/ MembershipChange

SpecAssign == InitAssign /\ [][NextAssign]_vars


----------------------------------------------------------------------------
(* Vocabulary of the properties of FromYAML.                               *)

Entries == data.proxies

\* Entry i defines a proxy of the file: its key is a string alias and no later
\* entry repeats that alias (a repeated alias is redefined by its last entry).
Defines(i) ==
    /\ Entries[i].Key.isString
    /\ \A j \in (i + 1)..Len(Entries) : Entries[j].Key # Entries[i].Key

IsMapping(i) == Entries[i].Value.kind = "mapping"

\* The entry that defines alias al.
EntryOf(al) ==
    CHOOSE i \in 1..Len(Entries) : Defines(i) /\ Entries[i].Key.val = al

\* What entry i configures at path: the value it gives, else the default dflt.
Given(i, path, dflt) ==
    IF IsMapping(i) /\ path \in DOMAIN Entries[i].Value.fields
    THEN Entries[i].Value.fields[path]
    ELSE dflt

\* The producer and consumer parameters entry i configures, over the defaults
\* documented for a proxy.
Configured(i) ==
    [Producer |->
        [ChannelBufferSize |-> Given(i, "producer.channel_buffer_size", 4096),
         ShutdownTimeout |-> Given(i, "producer.shutdown_timeout", 30000)],
     Consumer |->
        [ChannelBufferSize |-> Given(i, "consumer.channel_buffer_size", 64),
         LongPollingTimeout |-> Given(i, "consumer.long_polling_timeout", 3000),
         RegistrationTimeout |-> Given(i, "consumer.registration_timeout", 20000),
         AckTimeout |-> Given(i, "consumer.ack_timeout", 15000),
         BackOffTimeout |-> Given(i, "consumer.backoff_timeout", 500),
         RebalanceDelay |-> Given(i, "consumer.rebalance_delay", 250),
         OffsetsCommitInterval |->
             Given(i, "consumer.offsets_commit_interval", 500)]]

\* The constraints on the parameters of a proxy.
Constraints(p) ==
    /\ p.Producer.ChannelBufferSize > 0
    /\ p.Producer.ShutdownTimeout >= 0
    /\ p.Consumer.ChannelBufferSize > 0
    /\ p.Consumer.LongPollingTimeout > 0
    /\ p.Consumer.RegistrationTimeout > 0
    /\ p.Consumer.AckTimeout < p.Consumer.RegistrationTimeout
    /\ p.Consumer.BackOffTimeout > 0
    /\ p.Consumer.RebalanceDelay > 0
    /\ p.Consumer.OffsetsCommitInterval > 0

Returned == pc = "done" /\ err = "nil"
Failed == pc = "done" /\ err # "nil"

\* The leaf of Proxy p that carries the yaml tag path.
FieldAt(p, path) ==
    CASE path = "client_id" -> p.ClientID
      [] path = "kafka.seed_peers" -> p.Kafka.SeedPeers
      [] path = "zoo_keeper.seed_peers" -> p.ZooKeeper.SeedPeers
      [] path = "zoo_keeper.chroot" -> p.ZooKeeper.Chroot
      [] path = "producer.channel_buffer_size" -> p.Producer.ChannelBufferSize
      [] path = "producer.shutdown_timeout" -> p.Producer.ShutdownTimeout
      [] path = "consumer.channel_buffer_size" -> p.Consumer.ChannelBufferSize
      [] path = "consumer.long_polling_timeout" -> p.Consumer.LongPollingTimeout
      [] path = "consumer.registration_timeout" -> p.Consumer.RegistrationTimeout
      [] path = "consumer.ack_timeout" -> p.Consumer.AckTimeout
      [] path = "consumer.backoff_timeout" -> p.Consumer.BackOffTimeout
      [] path = "consumer.rebalance_delay" -> p.Consumer.RebalanceDelay
      [] path = "consumer.offsets_commit_interval" ->
            p.Consumer.OffsetsCommitInterval

AllPaths == Paths \cup {"kafka.seed_peers", "zoo_keeper.seed_peers"}

\* Paths of the parameters Proxy.validate does not look at.
UnvalidatedPaths == {"client_id", "kafka.seed_peers", "zoo_keeper.chroot"}

----------------------------------------------------------------------------
(* C1. Proxy.validate, and with it FromYAML, returns an error whenever     *)
(* Consumer.AckTimeout >= Consumer.RegistrationTimeout, equality included: *)
(* validate rejects every proxy configuration built from an entry of the   *)
(* file whose ack timeout is not below its registration timeout, FromYAML  *)
(* fails on a file that defines such a proxy, and every proxy of an App    *)
(* that FromYAML returns has AckTimeout < RegistrationTimeout.              *)
C1_AckTimeoutBelowRegistrationTimeout ==
    /\ \A i \in 1..Len(Entries), id \in GeneratedIDs :
          IsMapping(i) =>
            LET p == yamlUnmarshalProxy(yamlMarshal(Entries[i].Value),
                                        defaultProxyWithClientID(id)).proxy
            IN  p.Consumer.AckTimeout >= p.Consumer.RegistrationTimeout
                    => Proxy_validate(p) # "nil"
    /\ pc = "done" =>
          \A i \in 1..Len(Entries) :
              ( /\ Defines(i)
                /\ Configured(i).Consumer.AckTimeout
                      >= Configured(i).Consumer.RegistrationTimeout )
              => err # "nil" /\ appCfg = NilApp
    /\ Returned =>
          \A al \in DOMAIN appCfg.Proxies :
              appCfg.Proxies[al].Consumer.AckTimeout
                  < appCfg.Proxies[al].Consumer.RegistrationTimeout

\* FromYAML rejected a file in which a proxy has AckTimeout equal to
\* RegistrationTimeout, with the error of that check.
C1_Witness ==
    /\ Failed
    /\ err = "Consumer.AckTimeout must be < Consumer.RegistrationTimeout"
    /\ \E i \in 1..Len(Entries) :
          /\ Defines(i)
          /\ Configured(i).Consumer.AckTimeout
                = Configured(i).Consumer.RegistrationTimeout

(* C2. Configuration errors fail fast: when a proxy of the file has        *)
(* Producer.ChannelBufferSize <= 0 or Consumer.ChannelBufferSize <= 0,     *)
(* FromYAML returns a non-nil error with a nil App; an error never comes   *)
(* with an App, and no returned proxy has a non-positive buffer size.      *)
C2_NonPositiveBufferSizeFailsFast ==
    /\ pc = "done" =>
          \A i \in 1..Len(Entries) :
              ( /\ Defines(i)
                /\ \/ Configured(i).Producer.ChannelBufferSize <= 0
                   \/ Configured(i).Consumer.ChannelBufferSize <= 0 )
              => err # "nil" /\ appCfg = NilApp
    /\ pc = "done" => (err # "nil" <=> appCfg = NilApp)
    /\ Returned =>
          \A al \in DOMAIN appCfg.Proxies :
              /\ appCfg.Proxies[al].Producer.ChannelBufferSize > 0
              /\ appCfg.Proxies[al].Consumer.ChannelBufferSize > 0

\* FromYAML rejected a file of two proxies, one with a buffer size of zero,
\* and returned no App.
C2_Witness ==
    /\ Failed
    /\ appCfg = NilApp
    /\ Len(Entries) = 2
    /\ Defines(1) /\ Defines(2)
    /\ Constraints(Configured(1))
    /\ Configured(2).Consumer.ChannelBufferSize <= 0
    /\ err = "Consumer.ChannelBufferSize must be > 0"

C4_DefaultProxyIsFirstMentioned ==
    (Returned /\ ~data.default_proxy.provided)
        => appCfg.DefaultProxy = Entries[1].Key.val

(* C5. When the file provides default_proxy, the returned App has          *)
(* DefaultProxy equal to the provided alias.                               *)
C5_ProvidedDefaultProxyIsKept ==
    (Returned /\ data.default_proxy.provided)
        => appCfg.DefaultProxy = data.default_proxy.alias

\* The proxies of the returned App whose entry does not set client_id carry
\* the identifier newClientID gave to this FromYAML call.
SharedClientID ==
    Returned =>
        /\ clientID \in GeneratedIDs
        /\ \A al \in DOMAIN appCfg.Proxies :
              "client_id" \notin DOMAIN Entries[EntryOf(al)].Value.fields
                  => appCfg.Proxies[al].ClientID = clientID

(* C6, as stated. Within one FromYAML call newClientID is invoked exactly  *)
(* once, and every proxy of the returned App whose entry does not set      *)
(* client_id carries that same ClientID.                                   *)
C6_ClientIDExactlyOncePerCall ==
    /\ pc = "done" => idCalls = 1
    /\ SharedClientID

(* C6, amended. Within one FromYAML call newClientID is invoked at most    *)
(* once: exactly once when the file parses as YAML, not at all when        *)
(* parsing fails (FromYAML returns before it generates the identifier);    *)
(* every proxy of the returned App whose entry does not set client_id      *)
(* carries that same ClientID; and no operation of the package that runs   *)
(* after FromYAML returned changes the App, the ClientID of its proxies    *)
(* included.                                                               *)
C6_ClientIDOncePerLoad ==
    /\ [](/\ idCalls <= 1
          /\ pc = "done" => idCalls = (IF data.wellFormed THEN 1 ELSE 0)
          /\ SharedClientID)
    /\ [][pc = "done" => appCfg' = appCfg]_vars

\* FromYAML returned two proxies, neither entry sets client_id, and both
\* carry the one generated identifier.
C6_Witness ==
    /\ Returned
    /\ idCalls = 1
    /\ Cardinality(DOMAIN appCfg.Proxies) = 2
    /\ \A al \in DOMAIN appCfg.Proxies :
          /\ "client_id" \notin DOMAIN Entries[EntryOf(al)].Value.fields
          /\ appCfg.Proxies[al].ClientID = clientID

(* C9. Every App returned by FromYAML with a nil error has a non-empty     *)
(* Proxies, a DefaultProxy that is a key of Proxies, and only proxies that *)
(* satisfy all the constraints of Proxy.validate; a file without proxies   *)
(* is rejected, and so is a file that defines one invalid proxy, wherever  *)
(* it stands among valid ones.                                             *)
C9_ReturnedAppIsValid ==
    /\ Returned =>
          /\ appCfg # NilApp
          /\ DOMAIN appCfg.Proxies # {}
          /\ appCfg.DefaultProxy \in DOMAIN appCfg.Proxies
          /\ \A al \in DOMAIN appCfg.Proxies : Constraints(appCfg.Proxies[al])
    /\ (pc = "done" /\ Len(Entries) = 0) => err # "nil"
    /\ pc = "done" =>
          \A i \in 1..Len(Entries) :
              (Defines(i) /\ ~Constraints(Configured(i))) => err # "nil"

\* FromYAML rejected a file whose first proxy, the default one, is valid and
\* whose second proxy violates a constraint.
C9_Witness ==
    /\ Failed
    /\ Len(Entries) = 2
    /\ Defines(1) /\ Defines(2)
    /\ IsMapping(1) /\ IsMapping(2)
    /\ Entries[1].Key.val # ""
    /\ Constraints(Configured(1))
    /\ ~Constraints(Configured(2))

(* C7. At-least-once commit safety: whatever sequence of RecordDelivery,   *)
(* RecordAck, ack-timeout and Tick events happens on an owned partition,   *)
(* the committed offset never covers an offset that is delivered and not   *)
(* acknowledged (in flight or waiting for re-handout), every offset it     *)
(* covers was acknowledged, and it is at most the highest acknowledged,    *)
(* contiguous offset.                                                      *)
C7_CommitNeverCoversUnacked ==
    /\ \A o \in 0..omKafka : o \in omEverAcked
    /\ omOwned =>
          /\ \A o \in DOMAIN omEntry.inflight \cup omEntry.retry :
                o > omKafka /\ o > omEntry.committed_offset
          /\ omEntry.committed_offset = omKafka
          /\ \A o \in (omKafka + 1)..(omEntry.next - 1) :
                o \in DOMAIN omEntry.inflight \cup omEntry.retry \cup omEntry.acked

\* Offsets 0 and 1 were acknowledged and committed while offset 2 was
\* delivered and timed out without an ack.
C7_Witness ==
    /\ omOwned
    /\ omKafka = 1
    /\ 2 \in omEntry.retry

(* C8. Partition coverage: once every live member has computed its own     *)
(* share from the same sorted member and partition lists, the shares are   *)
(* pairwise disjoint, their union is the partition set of the topic, and   *)
(* their sizes differ by at most one.                                      *)
C8_SharesPartitionTheTopic ==
    paComputed = paLive =>
        /\ \A m, n \in paLive : m # n => paShare[m] \cap paShare[n] = {}
        /\ UNION {paShare[m] : m \in paLive} = paPartitions
        /\ \A m, n \in paLive :
              Cardinality(paShare[m]) - Cardinality(paShare[n]) <= 1

\* Three members computed their shares of four partitions.
C8_Witness ==
    /\ paComputed = paLive
    /\ Cardinality(paLive) = 3
    /\ Cardinality(paPartitions) = 4
    /\ \E m \in paLive : Cardinality(paShare[m]) = 2

====
